---- MODULE Spec2Model ----
(***************************************************************************)
(* State-machine model of BlockCborWriter (src/src/blockcborwriter.cpp):   *)
(* the C-DNS block accumulator, its file lifecycle (open, header, blocks,  *)
(* footer, close), rotation, block flush and statistics windowing.         *)
(*                                                                         *)
(* BlockData, the CBOR encoder/sink and the rotating output pattern are    *)
(* declared in headers that are not part of src/; their behaviour follows  *)
(* spec.md sections 4.1-4.5.  The writer's own methods are translated      *)
(* statement by statement from blockcborwriter.cpp.                        *)
(***************************************************************************)
EXTENDS Integers, Sequences, FiniteSets, TLC

(***************************************************************************)
(* Bounds of the model.                                                    *)
(***************************************************************************)
MaxTime == 2            \* timestamps and clock readings range over 1..MaxTime
MaxRecords == 3         \* start_record calls in one run
MaxFiles == 2           \* files opened in one run
MaxAE == 1              \* write_ae calls in one run
MaxBlockItems == 2      \* config.max_block_items ranges over 1..MaxBlockItems
MaxClose == 1           \* explicit close() calls in one run
MaxGroups == 1          \* extended groups written in one run
MaxGroupRecords == 2    \* start_record calls in one run with extended groups
MaxExtras == 2          \* question and resource records written in one run
MaxFileRecords == 5     \* records fed into one file

Times == 1..MaxTime

(***************************************************************************)
(* Optional values (boost::optional): <<>> is absent, <<v>> is present.    *)
(***************************************************************************)
None == <<>>
Some(v) == <<v>>
IsSome(o) == Len(o) > 0
Get(o) == o[1]

(***************************************************************************)
(* Small arithmetic helpers.                                               *)
(***************************************************************************)
RECURSIVE Pow2(_)
Pow2(n) == IF n = 0 THEN 1 ELSE 2 * Pow2(n - 1)

RECURSIVE SeqMin(_)
SeqMin(s) == IF Len(s) = 1 THEN s[1]
             ELSE LET m == SeqMin(Tail(s)) IN IF s[1] < m THEN s[1] ELSE m

RECURSIVE SeqMax(_)
SeqMax(s) == IF Len(s) = 1 THEN s[1]
             ELSE LET m == SeqMax(Tail(s)) IN IF s[1] > m THEN s[1] ELSE m

Range(s) == {s[i] : i \in 1..Len(s)}

(***************************************************************************)
(* addr_to_string: the address bytes kept in the file.  An address is      *)
(* [v6, bytes]; bytes is the network-order representation.                 *)
(***************************************************************************)
PrefixLen(addr, cfg, is_client) ==
    IF addr.v6
    THEN (IF is_client THEN cfg.client_address_prefix_ipv6
                       ELSE cfg.server_address_prefix_ipv6)
    ELSE (IF is_client THEN cfg.client_address_prefix_ipv4
                       ELSE cfg.server_address_prefix_ipv4)

\* byte_string::resize(n): truncate, or pad with zero bytes
Resize(bytes, n) ==
    [i \in 1..n |-> IF i <= Len(bytes) THEN bytes[i] ELSE 0]

\* a slip: the last byte is kept as it is
MaskByte_Keep(b, k) == b

\* b &= 0xff << k, stored back into an 8-bit byte
MaskByte(b, k) == IF k >= 8 THEN 0 ELSE b - (b % Pow2(k))

MaskBytes(bytes, prefix_len) ==
    LET prefix_nbytes == (prefix_len + 7) \div 8
        res == Resize(bytes, prefix_nbytes)
    IN  IF prefix_nbytes > 0
        THEN [res EXCEPT ![prefix_nbytes] =
                  MaskByte(res[prefix_nbytes], prefix_nbytes * 8 - prefix_len)]
        ELSE res

addr_to_string(addr, cfg, is_client) ==
    MaskBytes(addr.bytes, PrefixLen(addr, cfg, is_client))

(***************************************************************************)
(* Intern tables of BlockData: insertion-ordered, no duplicates, indices   *)
(* 0-based in order of first insertion.                                    *)
(***************************************************************************)
IndexOf(table, v) == (CHOOSE i \in 1..Len(table) : table[i] = v) - 1

TableAdd(table, v) ==
    IF \E i \in 1..Len(table) : table[i] = v THEN table ELSE Append(table, v)

ValidIndex(table, idx) == idx >= 0 /\ idx < Len(table)

(***************************************************************************)
(* Configuration.  The values the writer reads from config_.               *)
(***************************************************************************)
RotationPeriod == 2     \* config.rotation_period used by the runs of Spec
SizeLimit == 4          \* the non-zero config.max_output_size used by the runs

HintNames ==
    {"server_address", "server_port", "transport", "transaction_type",
     "dns_flags", "timestamp", "client_address", "client_port",
     "transaction_id", "query_qdcount", "query_class_type", "query_name",
     "query_size", "client_hoplimit", "query_opcode", "query_rcode",
     "query_ancount", "query_arcount", "query_nscount", "query_udp_size",
     "query_edns_version", "query_opt_rdata", "response_size",
     "response_rcode", "response_delay", "qr_flags", "qr_signature",
     "rr_ttl", "rr_rdata", "address_events"}

\* exclude_hints is the set of hints that are switched on
MakeConfig(n, size, fromData, live, hints) ==
    [max_block_items |-> n,
     max_output_size |-> size,
     start_end_times_from_data |-> fromData,
     live |-> live,
     rotation_period |-> RotationPeriod,
     client_address_prefix_ipv4 |-> 20,
     client_address_prefix_ipv6 |-> 44,
     server_address_prefix_ipv4 |-> 32,
     server_address_prefix_ipv6 |-> 128,
     exclude_hints |-> hints]

Configs ==
    {MakeConfig(n, size, fromData, live, {}) :
        n \in 1..MaxBlockItems, size \in {0, SizeLimit},
        fromData \in BOOLEAN, live \in BOOLEAN}

(***************************************************************************)
(* Inputs: a QueryResponse holds a query and/or a response DNSMessage.     *)
(***************************************************************************)
Addr4(a, b, c, d) == [v6 |-> FALSE, bytes |-> <<a, b, c, d>>]

ClientAddrs == <<Addr4(198, 51, 100, 5), Addr4(198, 51, 111, 9), Addr4(198, 51, 200, 1)>>
ServerAddr == Addr4(192, 0, 2, 1)

\* a question / resource record as the DNS parser hands it over
Query(n) == [dname |-> n, qtype |-> 1, qclass |-> 1]
Resource(n) == [dname |-> n, qtype |-> 1, qclass |-> 1, ttl |-> 60, data |-> n + 10]

Edns0(ext) ==
    [extended_rcode |-> ext, udp_payload_size |-> 1232, edns_version |-> 0,
     data |-> 20]

\* DNSMessage with timestamp ts; nq questions; optional OPT record
Message(ts, nq, opt, rcode) ==
    [timestamp |-> ts,
     clientIP |-> Some(ClientAddrs[((ts - 1) % 3) + 1]),
     serverIP |-> Some(ServerAddr),
     clientPort |-> Some(40000),
     serverPort |-> Some(53),
     wire_size |-> Some(30 + ts),
     hoplimit |-> Some(64),
     id |-> 7,
     opcode |-> 0,
     rcode |-> rcode,
     questions_count |-> nq,
     answers_count |-> 1,
     authority_count |-> 2,
     additional_count |-> 3,
     queries |-> [i \in 1..nq |-> Query(ts % 2)],
     edns0 |-> opt]

\* QueryResponse: has_query / has_response, and the two messages
QueryResponse(hq, hr, qts, rts) ==
    [has_query |-> hq, has_response |-> hr,
     query |-> Message(qts, 1, None, 0),
     response |-> Message(rts, 1, Some(Edns0(1)), 3),
     transport_flags |-> 0, transaction_type |-> 0, dns_flags |-> 0]

\* the response of a matched pair carries another timestamp than the query
OtherTime(ts) == (ts % MaxTime) + 1

QRInputs ==
    {QueryResponse(TRUE, TRUE, ts, OtherTime(ts)) : ts \in Times}
    \cup {QueryResponse(FALSE, TRUE, MaxTime, MaxTime)}

\* a slip: the response is taken whenever there is one
Leading_ResponseFirst(qr) == IF qr.has_response THEN qr.response ELSE qr.query

\* qr->has_query() ? qr->query() : qr->response()
Leading(qr) == IF qr.has_query THEN qr.query ELSE qr.response

\* the leading timestamp of a record, as the history records it
RecordTime(qr) ==
    IF qr.has_query THEN qr.query.timestamp ELSE qr.response.timestamp

(***************************************************************************)
(* BlockData, QueryResponseItem, QueryResponseSignature.                   *)
(***************************************************************************)
EmptyItem ==
    [tstamp |-> None, client_address |-> None, client_port |-> None,
     id |-> None, qname |-> None, signature |-> None,
     query_size |-> None, response_size |-> None, hoplimit |-> None,
     response_delay |-> None, qr_flags |-> 0,
     query_extra_info |-> None, response_extra_info |-> None,
     rec |-> None]    \* history: the record end_record was called for

EmptyExtraInfo ==
    [questions_list |-> None, answers_list |-> None,
     authority_list |-> None, additional_list |-> None]

EmptySignature ==
    [server_address |-> None, server_port |-> None,
     qr_transport_flags |-> None, qr_type |-> None, dns_flags |-> None,
     query_classtype |-> None, qdcount |-> None, query_opcode |-> None,
     query_rcode |-> None, query_ancount |-> None, query_nscount |-> None,
     query_arcount |-> None, query_edns_payload_size |-> None,
     query_edns_version |-> None, query_opt_rdata |-> None,
     response_rcode |-> None, qr_flags |-> None]

\* BlockData as constructed: no times, zero statistics, empty tables
EmptyBlockData ==
    [earliest_time |-> 0,
     start_time |-> None, end_time |-> None,
     start_packet_statistics |-> 0, last_packet_statistics |-> 0,
     ip_addresses |-> <<>>, class_types |-> <<>>, names_rdatas |-> <<>>,
     query_response_signatures |-> <<>>, questions |-> <<>>,
     resource_records |-> <<>>, questions_lists |-> <<>>, rrs_lists |-> <<>>,
     query_response_items |-> <<>>,
     address_event_counts |-> <<>>]

\* BlockData::clear(): drops all tables and the item list
ClearBlockData(d) ==
    [d EXCEPT !.ip_addresses = <<>>, !.class_types = <<>>,
              !.names_rdatas = <<>>, !.query_response_signatures = <<>>,
              !.questions = <<>>, !.resource_records = <<>>,
              !.questions_lists = <<>>, !.rrs_lists = <<>>,
              !.query_response_items = <<>>,
              !.address_event_counts = <<>>]

\* BlockData::is_full()
is_full(d, cfg) == Len(d.query_response_items) >= cfg.max_block_items

\* BlockData::count_address_event: one entry per distinct event, with a count
count_address_event(d, type, code, address, is_ipv6) ==
    LET key == [type |-> type, code |-> code, address |-> address, v6 |-> is_ipv6]
        aec == d.address_event_counts
    IN  IF \E i \in 1..Len(aec) : aec[i].key = key
        THEN LET i == CHOOSE j \in 1..Len(aec) : aec[j].key = key
             IN [d EXCEPT !.address_event_counts[i].count = @ + 1]
        ELSE [d EXCEPT !.address_event_counts =
                           Append(@, [key |-> key, count |-> 1])]

(***************************************************************************)
(* State.                                                                  *)
(***************************************************************************)
VARIABLES
    config,                       \* config_ (fixed at construction)
    data,                         \* *data_, the current block
    enc_open,                     \* enc_->is_open()
    bytes_written,                \* enc_->bytes_written()
    files,                        \* the events written to each opened file
    filename_,                    \* filename_
    next_rotation,                \* output_pattern_: the next rotation time
    query_response_,              \* the in-progress item
    ext_group_,                   \* "null", "query" or "response"
    ext_rr_,                      \* "null", "answers", "authority", "additional"
    extra_questions_, extra_answers_, extra_authority_, extra_additional_,
    last_end_block_statistics_,
    need_start_block_stats_,
    pc,                           \* "run", or "done" after the destructor
    phase,                        \* the caller's position in a record
    cur,                          \* the record the caller is feeding
    last_flush,                   \* history: the block the last operation flushed
    nflushes,                     \* history: blocks flushed by the last operation
    prev_last,                    \* history: last_packet_statistics of the last flush
    filed,                        \* history: ids of the records written to files
    ended,                        \* history: ids of records, in end_record order
    hist,                         \* history: the counters passed in by the caller
    calls,                        \* history: number of calls of each operation
    op                            \* history: the last operation and its timestamp

progVars ==
    <<config, data, enc_open, bytes_written, files, filename_, next_rotation,
      query_response_, ext_group_, ext_rr_, extra_questions_, extra_answers_,
      extra_authority_, extra_additional_, last_end_block_statistics_,
      need_start_block_stats_>>

vars == <<progVars, pc, phase, cur, last_flush, nflushes, prev_last, filed,
          ended, hist, calls, op>>

recordVars ==
    <<query_response_, ext_group_, ext_rr_, extra_questions_, extra_answers_,
      extra_authority_, extra_additional_>>

(***************************************************************************)
(* The part of the writer that the file operations read and write, as one  *)
(* record, so that one operation can call another.                         *)
(***************************************************************************)
Writer ==
    [data |-> data, enc_open |-> enc_open, bytes_written |-> bytes_written,
     files |-> files, filename_ |-> filename_, next_rotation |-> next_rotation,
     last_end |-> last_end_block_statistics_,
     need_start |-> need_start_block_stats_,
     last_flush |-> None, nflushes |-> 0, prev_last |-> prev_last,
     filed |-> filed, hist |-> hist]

SetWriter(w) ==
    /\ data' = w.data
    /\ enc_open' = w.enc_open
    /\ bytes_written' = w.bytes_written
    /\ files' = w.files
    /\ filename_' = w.filename_
    /\ next_rotation' = w.next_rotation
    /\ last_end_block_statistics_' = w.last_end
    /\ need_start_block_stats_' = w.need_start
    /\ last_flush' = w.last_flush
    /\ nflushes' = w.nflushes
    /\ prev_last' = w.prev_last
    /\ filed' = w.filed
    /\ hist' = w.hist

(***************************************************************************)
(* The encoder and its sink.  Bytes are counted per event: a header, a     *)
(* break, and a block of one byte plus one per item.                       *)
(***************************************************************************)
BlockBytes(d) == 1 + Len(d.query_response_items)

\* a write while the sink is open reaches the current file
EncWrite(w, ev, nbytes) ==
    IF w.enc_open
    THEN [w EXCEPT !.files[Len(w.files)] = Append(@, ev),
                   !.bytes_written = @ + nbytes]
    ELSE w

\* enc_->open(filename): a new, empty file; the byte count starts again
EncOpen(w) ==
    [w EXCEPT !.enc_open = TRUE, !.bytes_written = 0,
              !.files = Append(@, <<>>)]

\* enc_->close()
EncClose(w) ==
    [EncWrite(w, "close", 0) EXCEPT !.enc_open = FALSE]

\* the ids of the records of a block, in item order
RecIds(d) == [i \in 1..Len(d.query_response_items) |->
                 Get(d.query_response_items[i].rec).id]

\* history of a flush: the block as serialized, the file it went to (0 when
\* the sink is closed), the counters the caller passed while it was current,
\* and last_packet_statistics of the block flushed before it
FlushEntry(w) ==
    [file |-> IF w.enc_open THEN Len(w.files) ELSE 0,
     block |-> w.data,
     first |-> w.hist.first, before |-> w.hist.before, latest |-> w.hist.latest,
     prev_last |-> w.prev_last]

\* BlockData::writeCbor(enc): the block goes to the encoder as it is now
writeCbor(w) ==
    LET w1 == [w EXCEPT !.last_flush = Some(FlushEntry(w)),
                        !.nflushes = @ + 1,
                        !.prev_last = Some(w.data.last_packet_statistics),
                        !.filed = IF w.enc_open THEN @ \o RecIds(w.data) ELSE @,
                        !.hist.first = None]
    IN  EncWrite(w1, "block", BlockBytes(w.data))

\* output_pattern_.need_rotate(timestamp, config)
need_rotate(w, timestamp) == timestamp >= w.next_rotation

\* output_pattern_.filename(timestamp, config): names the file by its period
\* and fixes the next rotation time
PatternFilename(w, timestamp, cfg) ==
    [w EXCEPT !.filename_ = (timestamp \div cfg.rotation_period) * cfg.rotation_period,
              !.next_rotation = ((timestamp \div cfg.rotation_period) + 1)
                                    * cfg.rotation_period]

(***************************************************************************)
(* BlockCborWriter: file header, footer, block flush, statistics.          *)
(***************************************************************************)
writeFileHeader(w) == EncWrite(w, "header", 1)

writeFileFooter(w) == EncWrite(w, "break", 1)

\* a slip: the block is serialized and not cleared
writeBlock_NoClear(w) ==
    LET w1 == [w EXCEPT !.data.last_packet_statistics = w.last_end]
        w2 == writeCbor(w1)
    IN  [w2 EXCEPT !.need_start = TRUE]

writeBlock(w) ==
    LET w1 == [w EXCEPT !.data.last_packet_statistics = w.last_end]
        w2 == writeCbor(w1)
    IN  [w2 EXCEPT !.data = ClearBlockData(w2.data),
                   !.need_start = TRUE]

\* a slip: the block starts from the counters of its own first call
updateBlockStats_FromCall(w, stats) ==
    LET w1 == IF w.need_start
              THEN [w EXCEPT !.data.start_packet_statistics = stats,
                             !.need_start = FALSE]
              ELSE w
    IN  [w1 EXCEPT !.last_end = stats]

updateBlockStats(w, stats) ==
    LET w1 == IF w.need_start
              THEN [w EXCEPT !.data.start_packet_statistics = w.last_end,
                             !.need_start = FALSE]
              ELSE w
    IN  [w1 EXCEPT !.last_end = stats]

\* a slip: close() without the is_open() test
close_Unguarded(w, cfg, now) ==
    LET w1 == IF cfg.live /\ ~IsSome(w.data.end_time)
              THEN [w EXCEPT !.data.end_time = Some(now)]
              ELSE w
    IN  EncClose(writeFileFooter(writeBlock(w1)))

\* a slip: close() without the flush of the current block
close_NoFlush(w, cfg, now) ==
    IF w.enc_open THEN EncClose(writeFileFooter(w)) ELSE w

\* close(); now is the clock reading used in live mode
close(w, cfg, now) ==
    IF w.enc_open
    THEN LET w1 == IF cfg.live /\ ~IsSome(w.data.end_time)
                   THEN [w EXCEPT !.data.end_time = Some(now)]
                   ELSE w
         IN  EncClose(writeFileFooter(writeBlock(w1)))
    ELSE w

\* a slip: the size test without max_output_size > 0
RotationDue_NoZeroTest(w, cfg, timestamp) ==
    \/ ~w.enc_open
    \/ w.bytes_written >= cfg.max_output_size
    \/ need_rotate(w, timestamp)

\* the condition of checkForRotation
RotationDue(w, cfg, timestamp) ==
    \/ ~w.enc_open
    \/ (cfg.max_output_size > 0 /\ w.bytes_written >= cfg.max_output_size)
    \/ need_rotate(w, timestamp)

checkForRotation(w, cfg, timestamp, now) ==
    IF RotationDue(w, cfg, timestamp)
    THEN LET w1 == IF w.enc_open
                   THEN LET a == [w EXCEPT !.data.end_time = Some(timestamp)]
                            b == close(a, cfg, now)
                        IN  [b EXCEPT !.data.start_time = Some(timestamp)]
                   ELSE w
             w2 == PatternFilename(w1, timestamp, cfg)
         IN  writeFileHeader(EncOpen(w2))
    ELSE w

(***************************************************************************)
(* qr_flags bits.                                                          *)
(***************************************************************************)
HAS_QUERY == 1
HAS_RESPONSE == 2
QUERY_HAS_OPT == 4
RESPONSE_HAS_OPT == 8
QUERY_HAS_NO_QUESTION == 16
RESPONSE_HAS_NO_QUESTION == 32

\* flags | bit, for a flags value in which bit may already be set
SetBit(flags, bit) == IF (flags \div bit) % 2 = 1 THEN flags ELSE flags + bit
HasBit(flags, bit) == (flags \div bit) % 2 = 1

(***************************************************************************)
(* writeBasic after updateBlockStats: the block times, the signature and   *)
(* the item.  d0 is the block, qri0 the in-progress item; the result is    *)
(* the new block, the new item and the signature that was built.           *)
(***************************************************************************)
\* lines 145-155: earliest_time and, from data, start_time / end_time
BasicTimes(d0, cfg, ts) ==
    LET dA == IF Len(d0.query_response_items) = 0 \/ ts < d0.earliest_time
              THEN [d0 EXCEPT !.earliest_time = ts]
              ELSE d0
    IN  IF cfg.start_end_times_from_data
        THEN LET dB == IF ~IsSome(dA.end_time) \/ ts > Get(dA.end_time)
                       THEN [dA EXCEPT !.end_time = Some(ts)]
                       ELSE dA
             IN  IF ~IsSome(dB.start_time) \/ ts < Get(dB.start_time)
                 THEN [dB EXCEPT !.start_time = Some(ts)]
                 ELSE dB
        ELSE dA

\* a slip: the OPT record's extended rcode is left out
WithExtendedRcode_BaseOnly(rcode, edns0) == rcode

\* rcode + (edns0->extended_rcode() << 4)
WithExtendedRcode(rcode, edns0) == rcode + edns0.extended_rcode * 16

writeBasicCore(qr, cfg, d0, qri0) ==
    LET d == Leading(qr)
        ex(h) == h \in cfg.exclude_hints
        q == qr.query
        r == qr.response
        dT == BasicTimes(d0, cfg, d.timestamp)
        \* server address, then client address, into the address table
        addSrv == ~ex("server_address") /\ IsSome(d.serverIP)
        srvBytes == addr_to_string(Get(d.serverIP), cfg, FALSE)
        addr1 == IF addSrv THEN TableAdd(dT.ip_addresses, srvBytes)
                 ELSE dT.ip_addresses
        addCli == ~ex("client_address") /\ IsSome(d.clientIP)
        cliBytes == addr_to_string(Get(d.clientIP), cfg, TRUE)
        addr2 == IF addCli THEN TableAdd(addr1, cliBytes) ELSE addr1
        \* first question
        hasQuestion == Len(d.queries) > 0
        ct == [qtype |-> d.queries[1].qtype, qclass |-> d.queries[1].qclass]
        addCt == hasQuestion /\ ~ex("query_class_type")
        cts1 == IF addCt THEN TableAdd(dT.class_types, ct) ELSE dT.class_types
        addName == hasQuestion /\ ~ex("query_name")
        names1 == IF addName THEN TableAdd(dT.names_rdatas, d.queries[1].dname)
                  ELSE dT.names_rdatas
        \* query side
        qOpt == qr.has_query /\ IsSome(q.edns0)
        addOpt == qOpt /\ ~ex("query_opt_rdata")
        names2 == IF addOpt THEN TableAdd(names1, Get(q.edns0).data) ELSE names1
        qRcode == IF qr.has_query /\ ~ex("query_rcode")
                  THEN (IF qOpt
                        THEN Some(WithExtendedRcode(q.rcode, Get(q.edns0)))
                        ELSE Some(q.rcode))
                  ELSE None
        qOpcode == IF qr.has_query /\ ~ex("query_opcode") THEN Some(q.opcode)
                   ELSE None
        \* response side
        rOpt == qr.has_response /\ IsSome(r.edns0)
        opcode == IF qr.has_response /\ ~ex("query_opcode") /\ ~IsSome(qOpcode)
                  THEN Some(r.opcode) ELSE qOpcode
        rRcode == IF qr.has_response /\ ~ex("response_rcode")
                  THEN (IF rOpt
                        THEN Some(WithExtendedRcode(r.rcode, Get(r.edns0)))
                        ELSE Some(r.rcode))
                  ELSE None
        f0 == IF hasQuestion THEN 0 ELSE QUERY_HAS_NO_QUESTION
        f1 == IF qr.has_query THEN SetBit(f0, HAS_QUERY) ELSE f0
        f2 == IF qOpt THEN SetBit(f1, QUERY_HAS_OPT) ELSE f1
        f3 == IF qr.has_response THEN SetBit(f2, HAS_RESPONSE) ELSE f2
        f4 == IF rOpt THEN SetBit(f3, RESPONSE_HAS_OPT) ELSE f3
        flags == IF qr.has_response /\ r.questions_count = 0
                 THEN SetBit(f4, RESPONSE_HAS_NO_QUESTION) ELSE f4
        qs == [EmptySignature EXCEPT
                 !.server_address =
                     IF addSrv THEN Some(IndexOf(addr1, srvBytes)) ELSE None,
                 !.server_port =
                     IF ~ex("server_port") /\ IsSome(d.serverPort)
                     THEN d.serverPort ELSE None,
                 !.qr_transport_flags =
                     IF ~ex("transport") THEN Some(qr.transport_flags) ELSE None,
                 !.qr_type =
                     IF ~ex("transaction_type") THEN Some(qr.transaction_type)
                     ELSE None,
                 !.dns_flags =
                     IF ~ex("dns_flags") THEN Some(qr.dns_flags) ELSE None,
                 !.qdcount =
                     IF ~ex("query_qdcount") THEN Some(d.questions_count)
                     ELSE None,
                 !.query_classtype =
                     IF addCt THEN Some(IndexOf(cts1, ct)) ELSE None,
                 !.query_opcode = opcode,
                 !.query_rcode = qRcode,
                 !.query_ancount =
                     IF qr.has_query /\ ~ex("query_ancount")
                     THEN Some(q.answers_count) ELSE None,
                 !.query_nscount =
                     IF qr.has_query /\ ~ex("query_arcount")
                     THEN Some(q.authority_count) ELSE None,
                 !.query_arcount =
                     IF qr.has_query /\ ~ex("query_nscount")
                     THEN Some(q.additional_count) ELSE None,
                 !.query_edns_payload_size =
                     IF qOpt /\ ~ex("query_udp_size")
                     THEN Some(Get(q.edns0).udp_payload_size) ELSE None,
                 !.query_edns_version =
                     IF qOpt /\ ~ex("query_edns_version")
                     THEN Some(Get(q.edns0).edns_version) ELSE None,
                 !.query_opt_rdata =
                     IF addOpt THEN Some(IndexOf(names2, Get(q.edns0).data))
                     ELSE None,
                 !.response_rcode = rRcode,
                 !.qr_flags = IF ~ex("qr_flags") THEN Some(flags) ELSE None]
        addSig == ~ex("qr_signature")
        sigs1 == IF addSig THEN TableAdd(dT.query_response_signatures, qs)
                 ELSE dT.query_response_signatures
        qri == [qri0 EXCEPT
                 !.qr_flags = flags,
                 !.tstamp = IF ~ex("timestamp") THEN Some(d.timestamp) ELSE @,
                 !.client_address =
                     IF addCli THEN Some(IndexOf(addr2, cliBytes)) ELSE @,
                 !.client_port =
                     IF ~ex("client_port") /\ IsSome(d.clientPort)
                     THEN d.clientPort ELSE @,
                 !.id = IF ~ex("transaction_id") THEN Some(d.id) ELSE @,
                 !.qname =
                     IF addName THEN Some(IndexOf(names1, d.queries[1].dname))
                     ELSE @,
                 !.query_size =
                     IF qr.has_query /\ ~ex("query_size") /\ IsSome(q.wire_size)
                     THEN q.wire_size ELSE @,
                 !.hoplimit =
                     IF qr.has_query /\ ~ex("client_hoplimit") /\ IsSome(q.hoplimit)
                     THEN q.hoplimit ELSE @,
                 !.response_size =
                     IF qr.has_response /\ ~ex("response_size")
                        /\ IsSome(r.wire_size)
                     THEN r.wire_size ELSE @,
                 !.response_delay =
                     IF qr.has_query /\ qr.has_response /\ ~ex("response_delay")
                     THEN Some(r.timestamp - q.timestamp) ELSE @,
                 !.signature =
                     IF addSig THEN Some(IndexOf(sigs1, qs)) ELSE @]
    IN  [data |-> [dT EXCEPT !.ip_addresses = addr2,
                             !.class_types = cts1,
                             !.names_rdatas = names2,
                             !.query_response_signatures = sigs1],
         item |-> qri,
         signature |-> qs]

(***************************************************************************)
(* Extended groups: question and resource records, and their lists.        *)
(***************************************************************************)
\* writeQuestionRecord: the block after the adds, and the question's index
writeQuestionCore(question, cfg, d0) ==
    LET ex(h) == h \in cfg.exclude_hints
        names1 == IF ~ex("query_name") THEN TableAdd(d0.names_rdatas, question.dname)
                  ELSE d0.names_rdatas
        ct == [qtype |-> question.qtype, qclass |-> question.qclass]
        cts1 == IF ~ex("query_class_type") THEN TableAdd(d0.class_types, ct)
                ELSE d0.class_types
        q == [qname |-> IF ~ex("query_name")
                        THEN Some(IndexOf(names1, question.dname)) ELSE None,
              classtype |-> IF ~ex("query_class_type")
                            THEN Some(IndexOf(cts1, ct)) ELSE None]
        qs1 == TableAdd(d0.questions, q)
    IN  [data |-> [d0 EXCEPT !.names_rdatas = names1, !.class_types = cts1,
                             !.questions = qs1],
         index |-> IndexOf(qs1, q)]

\* writeResourceRecord: the block after the adds, and the record's index
writeResourceCore(resource, cfg, d0) ==
    LET ex(h) == h \in cfg.exclude_hints
        names1 == IF ~ex("query_name") THEN TableAdd(d0.names_rdatas, resource.dname)
                  ELSE d0.names_rdatas
        ct == [qtype |-> resource.qtype, qclass |-> resource.qclass]
        cts1 == IF ~ex("query_class_type") THEN TableAdd(d0.class_types, ct)
                ELSE d0.class_types
        names2 == IF ~ex("rr_rdata") THEN TableAdd(names1, resource.data)
                  ELSE names1
        rr == [name |-> IF ~ex("query_name")
                        THEN Some(IndexOf(names1, resource.dname)) ELSE None,
               classtype |-> IF ~ex("query_class_type")
                             THEN Some(IndexOf(cts1, ct)) ELSE None,
               ttl |-> IF ~ex("rr_ttl") THEN Some(resource.ttl) ELSE None,
               rdata |-> IF ~ex("rr_rdata")
                         THEN Some(IndexOf(names2, resource.data)) ELSE None]
        rrs1 == TableAdd(d0.resource_records, rr)
    IN  [data |-> [d0 EXCEPT !.names_rdatas = names2, !.class_types = cts1,
                             !.resource_records = rrs1],
         index |-> IndexOf(rrs1, rr)]

\* endExtendedGroup: the lists are interned, their indices stored in info
endExtendedGroupCore(d0, info, eq, ean, eau, ead) ==
    LET ql == IF Len(eq) > 0 THEN TableAdd(d0.questions_lists, eq)
              ELSE d0.questions_lists
        rl1 == IF Len(ean) > 0 THEN TableAdd(d0.rrs_lists, ean) ELSE d0.rrs_lists
        rl2 == IF Len(eau) > 0 THEN TableAdd(rl1, eau) ELSE rl1
        rl3 == IF Len(ead) > 0 THEN TableAdd(rl2, ead) ELSE rl2
    IN  [data |-> [d0 EXCEPT !.questions_lists = ql, !.rrs_lists = rl3],
         info |-> [info EXCEPT
                     !.questions_list =
                         IF Len(eq) > 0 THEN Some(IndexOf(ql, eq)) ELSE @,
                     !.answers_list =
                         IF Len(ean) > 0 THEN Some(IndexOf(rl1, ean)) ELSE @,
                     !.authority_list =
                         IF Len(eau) > 0 THEN Some(IndexOf(rl2, eau)) ELSE @,
                     !.additional_list =
                         IF Len(ead) > 0 THEN Some(IndexOf(rl3, ead)) ELSE @]]

(***************************************************************************)
(* Initial state: the writer as constructed, sink closed.                  *)
(***************************************************************************)
Op(name, ts) == [name |-> name, ts |-> ts]

NoCalls == [records |-> 0, aes |-> 0, closes |-> 0, groups |-> 0, extras |-> 0]

InitWith(cfgs) ==
    /\ config \in cfgs
    /\ \E now \in Times :
          data = IF config.live
                 THEN [EmptyBlockData EXCEPT !.start_time = Some(now)]
                 ELSE EmptyBlockData
    /\ enc_open = FALSE
    /\ bytes_written = 0
    /\ files = <<>>
    /\ filename_ = 0
    /\ next_rotation = 0
    /\ query_response_ = EmptyItem
    /\ ext_group_ = "null"
    /\ ext_rr_ = "null"
    /\ extra_questions_ = <<>>
    /\ extra_answers_ = <<>>
    /\ extra_authority_ = <<>>
    /\ extra_additional_ = <<>>
    /\ last_end_block_statistics_ = 0
    /\ need_start_block_stats_ = TRUE
    /\ pc = "run"
    /\ phase = "idle"
    /\ cur = [id |-> 0, qr |-> QueryResponse(TRUE, FALSE, 1, 1)]
    /\ last_flush = None
    /\ nflushes = 0
    /\ prev_last = None
    /\ filed = <<>>
    /\ ended = <<>>
    /\ hist = [first |-> None, before |-> None, latest |-> None]
    /\ calls = NoCalls
    /\ op = Op("init", 0)

Init == InitWith(Configs)

\* the counters a caller passes next: PacketStatistics is cumulative, and
\* the writer only copies it, so the k-th call passes the value k
NextStats ==
    LET last == IF IsSome(hist.latest) THEN Get(hist.latest) ELSE 0
    IN  {last + 1}

\* history of a call that passes counters: the first of the current block,
\* the ones passed last before it, and the latest
Supply(w, stats) ==
    [w EXCEPT !.hist = [first |-> IF IsSome(@.first) THEN @.first ELSE Some(stats),
                        before |-> IF IsSome(@.first) THEN @.before ELSE @.latest,
                        latest |-> Some(stats)]]

\* the clock readings close() can get: it reads the clock in live mode only
Clock == IF config.live THEN Times ELSE {MaxTime}

\* an operation that flushes nothing
NoFlush == last_flush' = None /\ nflushes' = 0

(***************************************************************************)
(* Operations.                                                             *)
(***************************************************************************)
CheckForRotation ==
    /\ pc = "run"
    /\ \E timestamp \in Times, now \in Clock :
          /\ RotationDue(Writer, config, timestamp) => Len(files) < MaxFiles
          /\ SetWriter(checkForRotation(Writer, config, timestamp, now))
          /\ op' = Op("check_for_rotation", timestamp)
    /\ UNCHANGED <<config, recordVars, pc, phase, cur, ended, calls>>

Close ==
    /\ pc = "run"
    /\ calls.closes < MaxClose
    /\ \E now \in Clock : SetWriter(close(Writer, config, now))
    /\ calls' = [calls EXCEPT !.closes = @ + 1]
    /\ op' = Op("close", 0)
    /\ UNCHANGED <<config, recordVars, pc, phase, cur, ended>>

\* ~BlockCborWriter()
Destroy ==
    /\ pc = "run"
    /\ \E now \in Clock : SetWriter(close(Writer, config, now))
    /\ pc' = "done"
    /\ op' = Op("destroy", 0)
    /\ UNCHANGED <<config, recordVars, phase, cur, ended, calls>>

WriteAE ==
    /\ pc = "run"
    /\ calls.aes < MaxAE
    /\ \E stats \in NextStats :
          LET address == ClientAddrs[1]
              w1 == IF "address_events" \notin config.exclude_hints
                    THEN [Writer EXCEPT !.data =
                            count_address_event(@, 1, 0,
                                addr_to_string(address, config, TRUE),
                                address.v6)]
                    ELSE Writer
          IN  SetWriter(Supply(updateBlockStats(w1, stats), stats))
    /\ calls' = [calls EXCEPT !.aes = @ + 1]
    /\ op' = Op("write_ae", 0)
    /\ UNCHANGED <<config, recordVars, pc, phase, cur, ended>>

\* startRecord(qr), for a record out of inputs, the limit-th at most
StartRecordOf(inputs, limit) ==
    /\ pc = "run"
    /\ phase = "idle"
    /\ calls.records < limit
    /\ \E qr \in inputs :
          LET d == Leading(qr)
              w1 == IF is_full(data, config)
                    THEN LET a == [Writer EXCEPT !.data.end_time = Some(d.timestamp)]
                             b == writeBlock(a)
                         IN  [b EXCEPT !.data.start_time = Some(d.timestamp)]
                    ELSE Writer
          IN  /\ SetWriter(w1)
              /\ cur' = [id |-> calls.records + 1, qr |-> qr]
              /\ op' = Op("start_record", RecordTime(qr))
    /\ query_response_' = EmptyItem
    /\ extra_questions_' = <<>>
    /\ extra_answers_' = <<>>
    /\ extra_authority_' = <<>>
    /\ extra_additional_' = <<>>
    /\ phase' = "started"
    /\ calls' = [calls EXCEPT !.records = @ + 1]
    /\ UNCHANGED <<config, ext_group_, ext_rr_, pc, ended>>

StartRecord == StartRecordOf(QRInputs, MaxRecords)

WriteBasic ==
    /\ pc = "run"
    /\ phase = "started"
    /\ \E stats \in NextStats :
          LET w1 == updateBlockStats(Writer, stats)
              res == writeBasicCore(cur.qr, config, w1.data, query_response_)
          IN  /\ SetWriter(Supply([w1 EXCEPT !.data = res.data], stats))
              /\ query_response_' = res.item
    /\ phase' = "basic"
    /\ op' = Op("write_basic", 0)
    /\ UNCHANGED <<config, ext_group_, ext_rr_, extra_questions_, extra_answers_,
                   extra_authority_, extra_additional_, pc, cur, ended, calls>>

EndRecord ==
    /\ pc = "run"
    /\ phase = "basic"
    /\ data' = [data EXCEPT !.query_response_items =
                   Append(@, [query_response_ EXCEPT !.rec =
                       Some([id |-> cur.id, ts |-> RecordTime(cur.qr)])])]
    /\ query_response_' = EmptyItem
    /\ ended' = Append(ended, cur.id)
    /\ phase' = "idle"
    /\ op' = Op("end_record", 0)
    /\ UNCHANGED <<config, enc_open, bytes_written, files, filename_,
                   next_rotation, ext_group_, ext_rr_, extra_questions_,
                   extra_answers_, extra_authority_, extra_additional_,
                   last_end_block_statistics_, need_start_block_stats_,
                   pc, cur, prev_last, filed, hist, calls>>
    /\ NoFlush

\* the caller writes at most one extended group per side of a record
GroupVarsUnchanged ==
    UNCHANGED <<config, enc_open, bytes_written, files, filename_,
                next_rotation, last_end_block_statistics_,
                need_start_block_stats_, pc, cur, prev_last, filed, ended, hist>>
    /\ NoFlush
    /\ op' = Op("group", 0)

StartExtendedQueryGroup ==
    /\ pc = "run"
    /\ phase = "basic"
    /\ cur.qr.has_query
    /\ calls.groups < MaxGroups
    /\ query_response_' =
          IF ~IsSome(query_response_.query_extra_info)
          THEN [query_response_ EXCEPT !.query_extra_info = Some(EmptyExtraInfo)]
          ELSE query_response_
    /\ ext_group_' = "query"
    /\ phase' = "group"
    /\ calls' = [calls EXCEPT !.groups = @ + 1]
    /\ GroupVarsUnchanged
    /\ UNCHANGED <<data, ext_rr_, extra_questions_, extra_answers_,
                   extra_authority_, extra_additional_>>

StartExtendedResponseGroup ==
    /\ pc = "run"
    /\ phase = "basic"
    /\ cur.qr.has_response
    /\ calls.groups < MaxGroups
    /\ query_response_' =
          IF ~IsSome(query_response_.response_extra_info)
          THEN [query_response_ EXCEPT !.response_extra_info = Some(EmptyExtraInfo)]
          ELSE query_response_
    /\ ext_group_' = "response"
    /\ phase' = "group"
    /\ calls' = [calls EXCEPT !.groups = @ + 1]
    /\ GroupVarsUnchanged
    /\ UNCHANGED <<data, ext_rr_, extra_questions_, extra_answers_,
                   extra_authority_, extra_additional_>>

\* startQuestionsSection() and endSection() have empty bodies
StartQuestionsSection ==
    /\ pc = "run"
    /\ phase = "group"
    /\ GroupVarsUnchanged
    /\ UNCHANGED <<data, recordVars, phase, calls>>

EndSection ==
    /\ pc = "run"
    /\ phase = "group"
    /\ GroupVarsUnchanged
    /\ UNCHANGED <<data, recordVars, phase, calls>>

\* the message of the side the group is written for
GroupMessage == IF ext_group_ = "query" THEN cur.qr.query ELSE cur.qr.response

WriteQuestionRecord ==
    /\ pc = "run"
    /\ phase = "group"
    /\ calls.extras < MaxExtras
    /\ LET res == writeQuestionCore(GroupMessage.queries[1], config, data)
       IN  /\ data' = res.data
           /\ extra_questions_' = Append(extra_questions_, res.index)
    /\ calls' = [calls EXCEPT !.extras = @ + 1]
    /\ GroupVarsUnchanged
    /\ UNCHANGED <<query_response_, ext_group_, ext_rr_, extra_answers_,
                   extra_authority_, extra_additional_, phase>>

StartSection(section) ==
    /\ pc = "run"
    /\ phase = "group"
    /\ ext_rr_' = section
    /\ GroupVarsUnchanged
    /\ UNCHANGED <<data, query_response_, ext_group_, extra_questions_,
                   extra_answers_, extra_authority_, extra_additional_,
                   phase, calls>>

StartAnswersSection == StartSection("answers")

StartAuthoritySection == StartSection("authority")

StartAdditionalSection == StartSection("additional")

\* ext_rr_ must point at a list: the caller starts a section first
WriteResourceRecord ==
    /\ pc = "run"
    /\ phase = "group"
    /\ ext_rr_ # "null"
    /\ calls.extras < MaxExtras
    /\ LET res == writeResourceCore(Resource(GroupMessage.timestamp % 2),
                                    config, data)
       IN  /\ data' = res.data
           /\ extra_answers_' = IF ext_rr_ = "answers"
                                THEN Append(extra_answers_, res.index)
                                ELSE extra_answers_
           /\ extra_authority_' = IF ext_rr_ = "authority"
                                  THEN Append(extra_authority_, res.index)
                                  ELSE extra_authority_
           /\ extra_additional_' = IF ext_rr_ = "additional"
                                   THEN Append(extra_additional_, res.index)
                                   ELSE extra_additional_
    /\ calls' = [calls EXCEPT !.extras = @ + 1]
    /\ GroupVarsUnchanged
    /\ UNCHANGED <<query_response_, ext_group_, ext_rr_, extra_questions_, phase>>

EndExtendedGroup ==
    /\ pc = "run"
    /\ phase = "group"
    /\ LET info == IF ext_group_ = "query"
                   THEN Get(query_response_.query_extra_info)
                   ELSE Get(query_response_.response_extra_info)
           res == endExtendedGroupCore(data, info, extra_questions_,
                      extra_answers_, extra_authority_, extra_additional_)
       IN  /\ data' = res.data
           /\ query_response_' =
                 IF ext_group_ = "query"
                 THEN [query_response_ EXCEPT !.query_extra_info = Some(res.info)]
                 ELSE [query_response_ EXCEPT !.response_extra_info = Some(res.info)]
    /\ extra_questions_' = <<>>
    /\ extra_answers_' = <<>>
    /\ extra_authority_' = <<>>
    /\ extra_additional_' = <<>>
    /\ phase' = "basic"
    /\ GroupVarsUnchanged
    /\ UNCHANGED <<ext_group_, ext_rr_, calls>>

\* the file lifecycle and the records, without extended groups
Next ==
    \/ CheckForRotation
    \/ Close
    \/ Destroy
    \/ WriteAE
    \/ StartRecord
    \/ WriteBasic
    \/ EndRecord

Spec == Init /\ [][Next]_vars

\* every operation of the writer: records with extended groups; a rotation
\* may come at any point of a record, the other calls come between records
NextGroups ==
    \/ CheckForRotation
    \/ (phase = "idle" /\ Close)
    \/ (phase = "idle" /\ Destroy)
    \/ (phase = "idle" /\ WriteAE)
    \/ (calls.records < MaxGroupRecords /\ StartRecord)
    \/ WriteBasic
    \/ StartExtendedQueryGroup
    \/ StartExtendedResponseGroup
    \/ StartQuestionsSection
    \/ WriteQuestionRecord
    \/ EndSection
    \/ StartAnswersSection
    \/ StartAuthoritySection
    \/ StartAdditionalSection
    \/ WriteResourceRecord
    \/ EndExtendedGroup
    \/ EndRecord

\* one configuration: blocks of two items, no size limit, times not from data
GroupConfigs == {MakeConfig(MaxBlockItems, 0, FALSE, FALSE, {})}

InitGroups == InitWith(GroupConfigs)

SpecGroups == InitGroups /\ [][NextGroups]_vars

\* records come whole: the other calls are made between records, and the
\* run ends with the destructor's close
NextSeq ==
    \/ (phase = "idle" /\ CheckForRotation)
    \/ (phase = "idle" /\ WriteAE)
    \/ (phase = "idle" /\ Destroy)
    \/ StartRecord
    \/ WriteBasic
    \/ EndRecord

SpecSeq == Init /\ [][NextSeq]_vars

(***************************************************************************)
(* A sink write error.  The sink's writeBytes throws while writeCbor is     *)
(* serializing the block: part of the block has reached the file.  The     *)
(* writer catches nothing, so the exception leaves writeBlock and the       *)
(* operation that called it at that point, and the caller goes on.          *)
(***************************************************************************)
\* no write of this run has failed yet
NoWriteError ==
    \A i \in 1..Len(files) : \A j \in 1..Len(files[i]) : files[i][j] # "partial"

\* writeBlock() up to the throw inside data_->writeCbor(*enc_)
writeBlockThrows(w) ==
    LET w1 == [w EXCEPT !.data.last_packet_statistics = w.last_end]
    IN  EncWrite(w1, "partial", 1)

\* startRecord(qr) on a full block, left by the exception
StartRecordThrows ==
    /\ pc = "run"
    /\ phase = "idle"
    /\ calls.records < MaxRecords
    /\ enc_open /\ NoWriteError
    /\ is_full(data, config)
    /\ \E qr \in QRInputs :
          LET d == Leading(qr)
              a == [Writer EXCEPT !.data.end_time = Some(d.timestamp)]
          IN  /\ SetWriter(writeBlockThrows(a))
              /\ op' = Op("start_record_error", RecordTime(qr))
    /\ calls' = [calls EXCEPT !.records = @ + 1]
    /\ UNCHANGED <<config, recordVars, pc, phase, cur, ended>>

\* close(), left by the exception: no footer, the sink stays open
CloseThrows ==
    /\ pc = "run"
    /\ phase = "idle"
    /\ calls.closes < MaxClose
    /\ enc_open /\ NoWriteError
    /\ \E now \in Clock :
          LET w1 == IF config.live /\ ~IsSome(data.end_time)
                    THEN [Writer EXCEPT !.data.end_time = Some(now)]
                    ELSE Writer
          IN  SetWriter(writeBlockThrows(w1))
    /\ calls' = [calls EXCEPT !.closes = @ + 1]
    /\ op' = Op("close_error", 0)
    /\ UNCHANGED <<config, recordVars, pc, phase, cur, ended>>

\* checkForRotation(timestamp), left by the exception out of close()
CheckForRotationThrows ==
    /\ pc = "run"
    /\ phase = "idle"
    /\ enc_open /\ NoWriteError
    /\ \E timestamp \in Times, now \in Clock :
          /\ RotationDue(Writer, config, timestamp)
          /\ LET a == [Writer EXCEPT !.data.end_time = Some(timestamp)]
             IN  SetWriter(writeBlockThrows(a))
          /\ op' = Op("check_for_rotation_error", timestamp)
    /\ UNCHANGED <<config, recordVars, pc, phase, cur, ended, calls>>

\* records come whole, and one flush of the run may meet a write error
NextErr ==
    \/ (phase = "idle" /\ CheckForRotation)
    \/ (phase = "idle" /\ Close)
    \/ (phase = "idle" /\ Destroy)
    \/ StartRecord
    \/ WriteBasic
    \/ EndRecord
    \/ StartRecordThrows
    \/ CloseThrows
    \/ CheckForRotationThrows

SpecErr == Init /\ [][NextErr]_vars

\* endRecord(qr) called out of protocol: before start_record, or before
\* write_basic has filled the item
EndRecordEarly ==
    /\ pc = "run"
    /\ phase \in {"idle", "started"}
    /\ Len(data.query_response_items) < MaxBlockItems
    /\ data' = [data EXCEPT !.query_response_items =
                   Append(@, [query_response_ EXCEPT !.rec =
                       Some([id |-> 0, ts |-> 0])])]
    /\ query_response_' = EmptyItem
    /\ phase' = "idle"
    /\ op' = Op("end_record_early", 0)
    /\ UNCHANGED <<config, enc_open, bytes_written, files, filename_,
                   next_rotation, ext_group_, ext_rr_, extra_questions_,
                   extra_answers_, extra_authority_, extra_additional_,
                   last_end_block_statistics_, need_start_block_stats_,
                   pc, cur, prev_last, filed, ended, hist, calls>>
    /\ NoFlush

\* the calls of a record in any order
NextLoose ==
    \/ (phase = "idle" /\ CheckForRotation)
    \/ (phase = "idle" /\ Destroy)
    \/ StartRecord
    \/ WriteBasic
    \/ EndRecord
    \/ EndRecordEarly

SpecLoose == InitGroups /\ [][NextLoose]_vars

\* one file: it is opened first, records are then fed whole, and the run
\* ends with the destructor's close
NextOneFile ==
    \/ (Len(files) = 0 /\ CheckForRotation)
    \/ (enc_open /\ StartRecordOf(QRInputs, MaxFileRecords))
    \/ WriteBasic
    \/ EndRecord
    \/ (enc_open /\ phase = "idle" /\ Destroy)

SpecOneFile == Init /\ [][NextOneFile]_vars

\* write_basic on its own: one record of any shape, under every single
\* exclusion hint
ExtRcode == 1           \* extended rcode of the OPT records of BasicInputs
QueryRcode == 2         \* base rcode of the queries of BasicInputs
ResponseRcode == 3      \* base rcode of the responses of BasicInputs

Opts == {None, Some(Edns0(ExtRcode))}

BasicShapes ==
    {[QueryResponse(hq, hr, 1, MaxTime) EXCEPT
         !.query = Message(1, qn, qopt, QueryRcode),
         !.response = Message(MaxTime, rn, ropt, ResponseRcode)] :
       hq \in BOOLEAN, hr \in BOOLEAN,
       qn \in 0..1, rn \in 0..1, qopt \in Opts, ropt \in Opts}

BasicInputs == {qr \in BasicShapes : qr.has_query \/ qr.has_response}

BasicConfigs ==
    {MakeConfig(MaxBlockItems, 0, FALSE, FALSE, hints) :
        hints \in {{}} \cup {{h} : h \in HintNames}
                  \cup {{"query_nscount", "query_arcount"}}}

InitBasic == InitWith(BasicConfigs)

NextBasic ==
    \/ StartRecordOf(BasicInputs, 1)
    \/ WriteBasic
    \/ EndRecord

SpecBasic == InitBasic /\ [][NextBasic]_vars

\* address masking: one record between a client and a server address of
\* either family, under every prefix length of the family
Addr6(hi, lo) == [v6 |-> TRUE, bytes |-> [i \in 1..16 |-> IF i % 2 = 1 THEN hi ELSE lo]]

MaskAddrs ==
    {Addr4(255, 255, 255, 255), Addr4(198, 51, 100, 5), Addr4(170, 85, 170, 85),
     Addr6(255, 255), Addr6(32, 181)}

MaskInputs ==
    {[QueryResponse(TRUE, FALSE, 1, 1) EXCEPT
         !.query.clientIP = Some(c), !.query.serverIP = Some(s)] :
       c \in MaskAddrs, s \in MaskAddrs}

\* the k-th configuration: client prefixes k (modulo the IPv4 range), server
\* prefixes the complement
MaskConfigs ==
    LET bits4 == 8 * Len(Addr4(0, 0, 0, 0).bytes)
        bits6 == 8 * Len(Addr6(0, 0).bytes)
    IN  {[MakeConfig(MaxBlockItems, 0, FALSE, FALSE, {}) EXCEPT
             !.client_address_prefix_ipv4 = k % (bits4 + 1),
             !.server_address_prefix_ipv4 = bits4 - (k % (bits4 + 1)),
             !.client_address_prefix_ipv6 = k,
             !.server_address_prefix_ipv6 = bits6 - k] : k \in 0..bits6}

InitMask == InitWith(MaskConfigs)

NextMask ==
    \/ StartRecordOf(MaskInputs, 1)
    \/ WriteBasic
    \/ EndRecord

SpecMask == InitMask /\ [][NextMask]_vars

\* rcodes: one record whose query carries base rcode r and extended rcode e
\* and whose response carries the complements, each with or without OPT
MaxRcode == 15          \* the DNS header's rcode has 4 bits
MaxExtendedRcode == 255 \* the OPT record's extended rcode has 8 bits

RcodeInputs ==
    {[QueryResponse(hq, TRUE, 1, 1) EXCEPT
         !.query = Message(1, 1, IF qopt THEN Some(Edns0(e)) ELSE None, r),
         !.response = Message(1, 1,
                              IF ropt THEN Some(Edns0(MaxExtendedRcode - e))
                              ELSE None,
                              MaxRcode - r)] :
       hq \in BOOLEAN, qopt \in BOOLEAN, ropt \in BOOLEAN,
       e \in 0..MaxExtendedRcode, r \in 0..MaxRcode}

RcodeConfigs ==
    {MakeConfig(MaxBlockItems, 0, FALSE, FALSE, hints) :
        hints \in {{}, {"query_rcode"}, {"response_rcode"}}}

InitRcode == InitWith(RcodeConfigs)

NextRcode ==
    \/ StartRecordOf(RcodeInputs, 1)
    \/ WriteBasic
    \/ EndRecord

SpecRcode == InitRcode /\ [][NextRcode]_vars

(***************************************************************************)
(* Properties.                                                             *)
(***************************************************************************)
\* the block the last operation flushed
Flushed == Get(last_flush)

\* the leading timestamps of the records of a block
RecTimes(d) == [i \in 1..Len(d.query_response_items) |->
                   Get(d.query_response_items[i].rec).ts]

\* C1: a start_record on a block that holds max_block_items items flushes
\* exactly one block, whose end_time is the new record's leading timestamp,
\* and the new block starts at that timestamp; on a block with fewer items it
\* flushes nothing and leaves the block times alone.
C1_StartRecordFlush ==
    [][op'.name = "start_record" =>
         LET ts == IF cur'.qr.has_query THEN cur'.qr.query.timestamp
                   ELSE cur'.qr.response.timestamp
             n == Len(data.query_response_items)
         IN  /\ n = config.max_block_items =>
                   /\ nflushes' = 1
                   /\ Len(Flushed'.block.query_response_items) = n
                   /\ Flushed'.block.end_time = Some(ts)
                   /\ data'.start_time = Some(ts)
                   /\ data'.query_response_items = <<>>
             /\ n < config.max_block_items =>
                   /\ nflushes' = 0
                   /\ data'.start_time = data.start_time
                   /\ data'.end_time = data.end_time
                   /\ data'.earliest_time = data.earliest_time]_vars

\* C1 witness: a start_record has flushed a block of two items, for a record
\* whose query and response carry different timestamps
C1_Witness ==
    /\ op.name = "start_record"
    /\ nflushes = 1
    /\ config.max_block_items = MaxBlockItems
    /\ Len(Flushed.block.query_response_items) = MaxBlockItems
    /\ cur.qr.has_query /\ cur.qr.has_response

\* a closed file: a header, blocks, one break, the sink close
FileComplete(e) ==
    /\ Len(e) >= 3
    /\ e[1] = "header"
    /\ \A i \in 2..(Len(e) - 2) : e[i] = "block"
    /\ e[Len(e) - 1] = "break"
    /\ e[Len(e)] = "close"

\* the file being written: a header, then blocks
FileOpen(e) ==
    /\ Len(e) >= 1
    /\ e[1] = "header"
    /\ \A i \in 2..Len(e) : e[i] = "block"

FilesWellFormed ==
    \A i \in 1..Len(files) :
        IF i = Len(files) /\ enc_open THEN FileOpen(files[i])
        ELSE FileComplete(files[i])

\* C3: after every operation each closed file holds a header, whole blocks,
\* one break and the sink close, in that order, and the open file a header
\* followed by whole blocks; a close or destructor on a closed sink writes
\* nothing and flushes nothing.
C3_FileEvents ==
    [][/\ FilesWellFormed'
       /\ (op'.name \in {"close", "destroy"} /\ ~enc_open) =>
              (files' = files /\ nflushes' = 0 /\ ~enc_open')]_vars

\* C3 witness: an explicit close, a reopen and the destructor's close have
\* left two closed files
C3_Witness ==
    /\ pc = "done"
    /\ calls.closes = 1
    /\ Len(files) = 2
    /\ \A i \in 1..2 : FileComplete(files[i])
    /\ \E i \in 1..2 : Len(files[i]) > 3

\* C5 as stated: the flushed block starts from the counters passed with the
\* first write_basic or write_ae call of that block
C5_StartIsFirstCall ==
    (IsSome(last_flush) /\ IsSome(Flushed.first)) =>
        /\ Flushed.block.start_packet_statistics = Get(Flushed.first)
        /\ Flushed.block.last_packet_statistics = Get(Flushed.latest)

\* C5 amended: a flushed block that saw a write_basic or write_ae call starts
\* from the counters passed with the last such call before its first one (the
\* zero counters when there was none), and ends with the counters passed
\* with the most recent call before the flush.
C5_StartIsPreviousCall ==
    (IsSome(last_flush) /\ IsSome(Flushed.first)) =>
        /\ Flushed.block.start_packet_statistics =
              (IF IsSome(Flushed.before) THEN Get(Flushed.before) ELSE 0)
        /\ Flushed.block.last_packet_statistics = Get(Flushed.latest)

\* C5 witness: a flushed block with two calls of its own, after earlier calls
C5_Witness ==
    /\ IsSome(last_flush)
    /\ IsSome(Flushed.first)
    /\ IsSome(Flushed.before)
    /\ Get(Flushed.latest) > Get(Flushed.first)

\* C9: check_for_rotation(ts) opens a new file, after closing the current
\* one if there is one, exactly when the sink is closed, or max_output_size
\* is positive and reached by bytes_written, or the pattern reports a
\* rotation due at ts; otherwise it changes nothing of the sink, the file
\* name or the block.
C9_RotationCondition ==
    [][op'.name = "check_for_rotation" =>
         LET due == \/ ~enc_open
                    \/ (config.max_output_size > 0
                        /\ bytes_written >= config.max_output_size)
                    \/ op'.ts >= next_rotation
         IN  IF due
             THEN /\ Len(files') = Len(files) + 1
                  /\ enc_open'
                  /\ files'[Len(files')] = <<"header">>
                  /\ enc_open => FileComplete(files'[Len(files)])
             ELSE /\ enc_open' = enc_open
                  /\ files' = files
                  /\ bytes_written' = bytes_written
                  /\ filename_' = filename_
                  /\ data' = data
                  /\ nflushes' = 0]_vars

\* C9 witness: under a size limit, a check_for_rotation at a time the pattern
\* asks no rotation for has rotated an open file
C9_Witness ==
    /\ op.name = "check_for_rotation"
    /\ config.max_output_size > 0
    /\ nflushes = 1
    /\ Len(files) = 2
    /\ enc_open
    /\ filename_ = 0

\* C2: when a run that opened a file has ended with close, the records
\* written to files, in flush order, are the records end_record was called
\* for, in call order: none lost, none twice.
C2_RecordsFiledInOrder == (pc = "done" /\ Len(files) > 0) => filed = ended

\* C4: the block flushed after another block starts from the counters the
\* other one ended with.
C4_StatsWindow ==
    (IsSome(last_flush) /\ IsSome(Flushed.prev_last)) =>
        Flushed.block.start_packet_statistics = Get(Flushed.prev_last)

\* C6: with start_end_times_from_data, a block that holds records and is
\* flushed into a file has start_time the least and end_time the greatest
\* of their leading timestamps.
C6_TimesFromData ==
    (/\ config.start_end_times_from_data
     /\ IsSome(last_flush)
     /\ Flushed.file > 0
     /\ Len(Flushed.block.query_response_items) > 0) =>
        /\ Flushed.block.start_time = Some(SeqMin(RecTimes(Flushed.block)))
        /\ Flushed.block.end_time = Some(SeqMax(RecTimes(Flushed.block)))

\* C7: a flushed block that holds records has earliest_time the least of
\* their leading timestamps.
C7_EarliestIsMin ==
    (IsSome(last_flush) /\ Len(Flushed.block.query_response_items) > 0) =>
        Flushed.block.earliest_time = SeqMin(RecTimes(Flushed.block))

\* an optional index is absent or refers to an entry of the table
RefOk(table, o) == IsSome(o) => ValidIndex(table, Get(o))

ExtraInfoOk(d, o) ==
    IsSome(o) =>
        /\ RefOk(d.questions_lists, Get(o).questions_list)
        /\ RefOk(d.rrs_lists, Get(o).answers_list)
        /\ RefOk(d.rrs_lists, Get(o).authority_list)
        /\ RefOk(d.rrs_lists, Get(o).additional_list)

IndicesValid(d) ==
    /\ \A i \in 1..Len(d.query_response_items) :
          LET it == d.query_response_items[i]
          IN  /\ RefOk(d.ip_addresses, it.client_address)
              /\ RefOk(d.names_rdatas, it.qname)
              /\ RefOk(d.query_response_signatures, it.signature)
              /\ ExtraInfoOk(d, it.query_extra_info)
              /\ ExtraInfoOk(d, it.response_extra_info)
    /\ \A i \in 1..Len(d.query_response_signatures) :
          LET sig == d.query_response_signatures[i]
          IN  /\ RefOk(d.ip_addresses, sig.server_address)
              /\ RefOk(d.class_types, sig.query_classtype)
              /\ RefOk(d.names_rdatas, sig.query_opt_rdata)
    /\ \A i \in 1..Len(d.questions) :
          /\ RefOk(d.names_rdatas, d.questions[i].qname)
          /\ RefOk(d.class_types, d.questions[i].classtype)
    /\ \A i \in 1..Len(d.resource_records) :
          /\ RefOk(d.names_rdatas, d.resource_records[i].name)
          /\ RefOk(d.class_types, d.resource_records[i].classtype)
          /\ RefOk(d.names_rdatas, d.resource_records[i].rdata)

\* C8: every index stored in an item, a signature, a question or a resource
\* record of a flushed block refers to an entry of that block's tables.
C8_IndicesValid == IsSome(last_flush) => IndicesValid(Flushed.block)

\* C10: a check_for_rotation(ts) that opens a file leaves an empty block
\* with start_time = ts, and the block it flushed into the old file, when
\* there was one, has end_time = ts.
C10_OpenStartsBlock ==
    [][(op'.name = "check_for_rotation" /\ Len(files') = Len(files) + 1) =>
          /\ data'.query_response_items = <<>>
          /\ data'.start_time = Some(op'.ts)
          /\ enc_open => (nflushes' = 1 /\ Flushed'.block.end_time = Some(op'.ts))
      ]_vars

\* C11: as long as no record and no address event has been handed to the
\* writer, every file that was opened and closed holds its header directly
\* followed by the break: no block.
C11_EmptyFileNoBlocks ==
    (calls.records = 0 /\ calls.aes = 0) =>
        \A i \in 1..Len(files) :
            (i < Len(files) \/ ~enc_open) =>
                files[i] = <<"header", "break", "close">>

\* ceil(k / n)
CeilDiv(k, n) == (k + n - 1) \div n

\* C12: K records fed into one file with max_block_items = N: the current
\* block never holds more than N items, a block flushed by start_record
\* holds exactly N items, and the close that ends the run flushes the last
\* block with the K - N * (ceil(K/N) - 1) remaining items, which makes
\* ceil(K/N) blocks in the file.
C12_BlockCount ==
    [][LET N == config.max_block_items
           K == Len(ended)
       IN  /\ Len(data'.query_response_items) <= N
           /\ nflushes' <= 1
           /\ (op'.name = "start_record" /\ nflushes' = 1) =>
                  /\ Len(Flushed'.block.query_response_items) = N
                  /\ Flushed'.file = 1
           /\ (op'.name = "destroy" /\ K >= 1) =>
                  /\ nflushes' = 1
                  /\ Len(Flushed'.block.query_response_items) =
                         K - N * (CeilDiv(K, N) - 1)
                  /\ FileComplete(files'[1])
                  /\ Len(files'[1]) - 3 = CeilDiv(K, N)
                  /\ filed' = ended]_vars

\* C12 witness: five records in blocks of two: the closed file holds three
\* blocks, the last one with one item
C12_Witness ==
    /\ pc = "done"
    /\ config.max_block_items = 2
    /\ Len(ended) = 5
    /\ Len(files) = 1
    /\ Len(files[1]) = 6
    /\ Len(Flushed.block.query_response_items) = 1

\* the signature fields and the item fields that each exclusion hint names
SigFields(hints) ==
    (hints \cap {"server_address", "server_port", "dns_flags", "query_opcode",
                 "query_rcode", "query_ancount", "query_nscount",
                 "query_arcount", "query_edns_version", "query_opt_rdata",
                 "response_rcode", "qr_flags"})
    \cup (IF "transport" \in hints THEN {"qr_transport_flags"} ELSE {})
    \cup (IF "transaction_type" \in hints THEN {"qr_type"} ELSE {})
    \cup (IF "query_qdcount" \in hints THEN {"qdcount"} ELSE {})
    \cup (IF "query_class_type" \in hints THEN {"query_classtype"} ELSE {})
    \cup (IF "query_udp_size" \in hints THEN {"query_edns_payload_size"} ELSE {})

ItemFields(hints) ==
    (hints \cap {"client_address", "client_port", "query_size",
                 "response_size", "response_delay"})
    \cup (IF "timestamp" \in hints THEN {"tstamp"} ELSE {})
    \cup (IF "transaction_id" \in hints THEN {"id"} ELSE {})
    \cup (IF "query_name" \in hints THEN {"qname"} ELSE {})
    \cup (IF "client_hoplimit" \in hints THEN {"hoplimit"} ELSE {})
    \cup (IF "qr_signature" \in hints THEN {"signature"} ELSE {})

\* a record without the optional fields named
Blank(rec, fields) ==
    [f \in DOMAIN rec |-> IF f \in fields THEN None ELSE rec[f]]

\* C13: a write_basic under exclusion hints gives the item and the
\* signature that the same call gives without any hint, less the fields the
\* hints name: every other field, and every index into the tables, is the
\* same in both (under the qr_signature hint no signature is stored).
C13_ExclusionOnlyRemoves ==
    [][op'.name = "write_basic" =>
         LET hints == config.exclude_hints
             base == writeBasicCore(cur.qr, [config EXCEPT !.exclude_hints = {}],
                                    data, query_response_)
         IN  /\ query_response_' = Blank(base.item, ItemFields(hints))
             /\ data'.query_response_signatures =
                    IF "qr_signature" \in hints THEN <<>>
                    ELSE <<Blank(base.signature, SigFields(hints))>>]_vars

\* the intern tables of a block
Tables(d) ==
    <<d.ip_addresses, d.class_types, d.names_rdatas,
      d.query_response_signatures, d.questions, d.resource_records,
      d.questions_lists, d.rrs_lists>>

NoDuplicates(table) ==
    \A i, j \in 1..Len(table) : table[i] = table[j] => i = j

Extends(new, old) ==
    Len(new) >= Len(old) /\ SubSeq(new, 1, Len(old)) = old

\* C14: in every step each intern table of the block holds no value twice
\* and keeps the entries it had at their indices, new values going to the
\* end, unless the step flushed the block, which leaves every table empty;
\* the address and the signature index that write_basic stores in the item
\* are the positions of the masked client address and of the signature.
C14_Interning ==
    [][/\ \A k \in 1..Len(Tables(data)) :
             /\ NoDuplicates(Tables(data')[k])
             /\ IF nflushes' > 0
                THEN Tables(data')[k] = <<>>
                ELSE Extends(Tables(data')[k], Tables(data)[k])
       /\ op'.name = "write_basic" =>
             LET res == writeBasicCore(cur.qr, config, data, query_response_)
                 it == query_response_'
                 d == Leading(cur.qr)
             IN  /\ IsSome(it.client_address)
                 /\ data'.ip_addresses[Get(it.client_address) + 1] =
                        addr_to_string(Get(d.clientIP), config, TRUE)
                 /\ IsSome(it.signature)
                 /\ data'.query_response_signatures[Get(it.signature) + 1] =
                        res.signature]_vars

\* C14 witness: a flushed block of two records that share one signature
\* entry, after an earlier flush
C14_Witness ==
    /\ IsSome(last_flush)
    /\ IsSome(Flushed.prev_last)
    /\ Len(Flushed.block.query_response_items) = 2
    /\ Len(Flushed.block.query_response_signatures) = 1
    /\ \A i \in 1..2 : Flushed.block.query_response_items[i].signature = Some(0)

\* bit i (0 is the first, most significant bit) of a byte string
BitAt(bytes, i) == (bytes[(i \div 8) + 1] \div Pow2(7 - (i % 8))) % 2

\* masked is address a cut to its first p bits
MaskedTo(masked, a, p) ==
    /\ Len(masked) = (p + 7) \div 8
    /\ \A i \in 0..(8 * Len(masked) - 1) :
          BitAt(masked, i) = IF i < p THEN BitAt(a.bytes, i) ELSE 0
    /\ (p = 0 => masked = <<>>)
    /\ MaskBytes(masked, p) = masked

\* C15: the address bytes that write_basic stores for the server and for the
\* client are the address cut to the prefix length configured for its
\* family and role: ceil(p/8) bytes, the first p bits those of the address,
\* the bits after them zero, nothing for p = 0, and masking them again
\* changes nothing.
C15_AddressMasking ==
    phase = "basic" =>
        LET d == Leading(cur.qr)
            client == Get(d.clientIP)
            server == Get(d.serverIP)
            sig == data.query_response_signatures[Get(query_response_.signature) + 1]
        IN  /\ MaskedTo(data.ip_addresses[Get(query_response_.client_address) + 1],
                        client,
                        IF client.v6 THEN config.client_address_prefix_ipv6
                        ELSE config.client_address_prefix_ipv4)
            /\ MaskedTo(data.ip_addresses[Get(sig.server_address) + 1],
                        server,
                        IF server.v6 THEN config.server_address_prefix_ipv6
                        ELSE config.server_address_prefix_ipv4)

\* C15 witness: an IPv6 client address cut inside a byte, which loses bits,
\* next to an IPv4 server address cut inside a byte
C15_Witness ==
    /\ phase = "basic"
    /\ Get(Leading(cur.qr).clientIP).v6
    /\ ~Get(Leading(cur.qr).serverIP).v6
    /\ config.client_address_prefix_ipv6 % 8 = 3
    /\ config.server_address_prefix_ipv4 % 8 = 5
    /\ LET m == data.ip_addresses[Get(query_response_.client_address) + 1]
       IN  m[Len(m)] # Get(Leading(cur.qr).clientIP).bytes[Len(m)]

\* a | b on naturals
RECURSIVE BitOr(_, _)
BitOr(a, b) ==
    IF a = 0 THEN b
    ELSE IF b = 0 THEN a
    ELSE 2 * BitOr(a \div 2, b \div 2)
         + (IF a % 2 = 1 \/ b % 2 = 1 THEN 1 ELSE 0)

\* (e << 4) | r for a message with an OPT record, r without
StoredRcode(msg) ==
    IF IsSome(msg.edns0)
    THEN BitOr(Get(msg.edns0).extended_rcode * Pow2(4), msg.rcode)
    ELSE msg.rcode

\* C16: after write_basic the signature's response rcode is (e << 4) | r
\* when the response carries an OPT record with extended rcode e, and r when
\* it carries none; the same for the query rcode of a record with a query;
\* under its exclusion hint the rcode is absent.
C16_ExtendedRcode ==
    phase = "basic" =>
        LET qr == cur.qr
            sig == data.query_response_signatures[Get(query_response_.signature) + 1]
        IN  /\ sig.response_rcode =
                   IF "response_rcode" \in config.exclude_hints THEN None
                   ELSE Some(StoredRcode(qr.response))
            /\ qr.has_query =>
                   sig.query_rcode =
                       IF "query_rcode" \in config.exclude_hints THEN None
                       ELSE Some(StoredRcode(qr.query))

\* C16 witness: a query with base rcode 15 under extended rcode 254, next
\* to a response with an extended rcode of its own
C16_Witness ==
    /\ phase = "basic"
    /\ config.exclude_hints = {}
    /\ cur.qr.has_query
    /\ IsSome(cur.qr.query.edns0) /\ IsSome(cur.qr.response.edns0)
    /\ cur.qr.query.rcode = MaxRcode
    /\ Get(cur.qr.query.edns0).extended_rcode = MaxExtendedRcode - 1
    /\ data.query_response_signatures[1].query_rcode =
           Some(MaxExtendedRcode * 16 - 1)
    /\ data.query_response_signatures[1].response_rcode = Some(16)

\* C17: in no file is a block, whole or in part, written after the write
\* of a block has failed.
C17_NoFlushAfterError ==
    \A i \in 1..Len(files) :
        \A j, k \in 1..Len(files[i]) :
            (j < k /\ files[i][j] = "partial") =>
                files[i][k] \notin {"block", "partial"}

\* C18: an end_record that comes before start_record, or before write_basic
\* has filled the item, leaves the block's item list as it was and drops
\* the in-progress item.
C18_EarlyEndRecordDrops ==
    [][op'.name = "end_record_early" =>
         /\ data'.query_response_items = data.query_response_items
         /\ query_response_' = EmptyItem]_vars

\* C19: after write_basic for a record with a query, the signature holds
\* the query's answers, authority and additional counts in query_ancount,
\* query_nscount and query_arcount, each one absent exactly under the
\* exclusion hint of its own name.
C19_CountHints ==
    (/\ phase = "basic"
     /\ cur.qr.has_query
     /\ "qr_signature" \notin config.exclude_hints) =>
        LET q == cur.qr.query
            hints == config.exclude_hints
            sig == data.query_response_signatures[Get(query_response_.signature) + 1]
        IN  /\ sig.query_ancount =
                   IF "query_ancount" \in hints THEN None ELSE Some(q.answers_count)
            /\ sig.query_nscount =
                   IF "query_nscount" \in hints THEN None ELSE Some(q.authority_count)
            /\ sig.query_arcount =
                   IF "query_arcount" \in hints THEN None ELSE Some(q.additional_count)

\* C20: after write_basic the item's qr_flags has each bit set exactly when
\* the record has a query, has a response, has a query with an OPT record,
\* has a response with an OPT record, has a query without question, has a
\* response without question; the signature's qr_flags is the same value,
\* or absent under the qr_flags hint.
C20_QrFlags ==
    (phase = "basic" /\ "qr_signature" \notin config.exclude_hints) =>
        LET qr == cur.qr
            flags == query_response_.qr_flags
            sig == data.query_response_signatures[Get(query_response_.signature) + 1]
        IN  /\ HasBit(flags, HAS_QUERY) <=> qr.has_query
            /\ HasBit(flags, HAS_RESPONSE) <=> qr.has_response
            /\ HasBit(flags, QUERY_HAS_OPT) <=>
                   (qr.has_query /\ IsSome(qr.query.edns0))
            /\ HasBit(flags, RESPONSE_HAS_OPT) <=>
                   (qr.has_response /\ IsSome(qr.response.edns0))
            /\ HasBit(flags, QUERY_HAS_NO_QUESTION) <=>
                   (qr.has_query /\ Len(qr.query.queries) = 0)
            /\ HasBit(flags, RESPONSE_HAS_NO_QUESTION) <=>
                   (qr.has_response /\ Len(qr.response.queries) = 0)
            /\ flags < 2 * RESPONSE_HAS_NO_QUESTION
            /\ sig.qr_flags =
                   IF "qr_flags" \in config.exclude_hints THEN None ELSE Some(flags)

\* C21: every block flush goes to an open file that has its header, and
\* the records of the flushed block are written to that file.
C21_FlushOnlyWhenOpen ==
    [][nflushes' > 0 =>
         /\ enc_open
         /\ Flushed'.file > 0
         /\ files[Flushed'.file][1] = "header"
         /\ filed' = filed \o RecIds(Flushed'.block)]_vars

====
